---- MODULE Spec2Model ----
(***************************************************************************)
(* Model of src/src/static/js/chat_main.js: the chat request lifecycle of  *)
(* the iatoolkit chat page.                                                *)
(*                                                                         *)
(* Granularity: one action is one browser task (a click, a key press, a    *)
(* FileReader event, a network event, a timer callback) together with the  *)
(* promise continuations (microtasks) that the task makes runnable; the    *)
(* browser runs those to completion before it takes the next task.         *)
(*                                                                         *)
(* Texts are sequences of tokens; the token " " is white space.            *)
(***************************************************************************)
EXTENDS Integers, Sequences, FiniteSets, TLC

\* ------------------------------------------------------------------ bounds
MaxReq == 2
MaxFiles == 2
MaxEdits == 3

\* JS null for currentAbortController (request numbers start at 1)
Null == 0

\* ------------------------------------------------------------------- texts
RECURSIVE TrimStart(_)
TrimStart(s) ==
    IF s # <<>> /\ Head(s) = " " THEN TrimStart(Tail(s)) ELSE s

RECURSIVE TrimEnd(_)
TrimEnd(s) ==
    IF s # <<>> /\ s[Len(s)] = " " THEN TrimEnd(SubSeq(s, 1, Len(s) - 1)) ELSE s

\* String.prototype.trim
Trim(s) == TrimEnd(TrimStart(s))

\* JS truthiness of a string; an absent (undefined) string is modelled as
\* the empty one where the code only tests truthiness
Truthy(s) == s # <<>>

\* what the user can type in #question
QuestionInputs == { <<>>, <<" ">>, <<"Hello", " ">> }

\* the prompts of the dropdown: data-value and visible text
PromptItems == { [value |-> <<"summary">>, text |-> <<" ", "Summarize">>] }

\* what the user can type in the company specific input
SpecificInputs == { <<>>, <<" ">>, <<" ", "ACME">> }

\* window.company_ui_config: absent, disabled or enabled
ConfigChoices ==
    { [defined |-> FALSE, enabled |-> FALSE, id |-> "", data_key |-> ""],
      [defined |-> TRUE, enabled |-> FALSE, id |-> "rut", data_key |-> "client_rut"],
      [defined |-> TRUE, enabled |-> TRUE, id |-> "rut", data_key |-> "client_rut"] }

\* specificDataConfig && specificDataConfig.enabled
ConfigEnabled(cfg) == cfg.defined /\ cfg.enabled

\* window.externalUserId
ExternalUserId == <<"user-1">>

\* ----------------------------------------------------------------- wording
\* (the accents of the Spanish wording are dropped)
CancelText == <<"Solicitud cancelada por el usuario">>
TimeoutText ==
    <<"La solicitud ha excedido el tiempo limite de respuesta, intente nuevamente">>
ConnPrefix == <<"Error de conexion: ">>
UnknownServerText == <<"Error desconocido del servidor">>

\* error.message of the TypeError of a failed fetch or of a body whose
\* connection fails, and of the SyntaxError of response.json()
FetchFailedMessage == <<"Failed to fetch">>
SyntaxErrorMessage == <<"Unexpected token">>
\* error.message of the TypeError of line 220 when errorData is null
NullErrorMessage == <<"Cannot read properties of null (reading 'error_message')">>

\* ------------------------------------------------------------------- files
FileName(f) == <<"file", f>>
\* the base64 text of the content of file f
B64(f) == <<"b64", f>>
\* FileReader.readAsDataURL: "data:<mime>;base64,<base64>", as the pieces
\* around its commas
DataURL(f) == << <<"data:application/pdf;base64">>, B64(f) >>
\* toBase64's onload: {name: file.name, base64: reader.result.split(",")[1]}
toBase64(f) == [name |-> FileName(f), base64 |-> DataURL(f)[2]]
\* the value of a promise that has not settled
Unsettled == [name |-> <<>>, base64 |-> <<>>]

\* -------------------------------------------------------- response bodies
\* a response body: whether JSON.parse accepts it, whether it is the JSON
\* text null and, for an object, the fields the code reads (an absent field
\* is the empty text)
Bodies ==
    { [parses |-> FALSE, isNull |-> FALSE, answer |-> <<>>, error_message |-> <<>>],
      [parses |-> TRUE, isNull |-> TRUE, answer |-> <<>>, error_message |-> <<>>],
      [parses |-> TRUE, isNull |-> FALSE, answer |-> <<>>, error_message |-> <<>>],
      [parses |-> TRUE, isNull |-> FALSE, answer |-> <<"42">>, error_message |-> <<>>],
      [parses |-> TRUE, isNull |-> FALSE, answer |-> <<>>, error_message |-> <<"db down">>] }

VARIABLES
    isRequestInProgress,        \* line 4
    currentAbortController,     \* line 3: Null or the request that owns it
    isManualAbort,              \* window.isManualAbort
    specificDataConfig,         \* line 6, read once at document.ready
    questionField,              \* $('#question').val()
    agentSelectValue,           \* $('#agent-select-value').val()
    agentSelectDescription,     \* $('#agent-select-description').val()
    specificField,              \* $('#' + specificDataConfig.id).val()
    pond,                       \* window.filePond.getFiles()
    nextFile,                   \* the next file the user may add
    chat,                       \* the children of #chat-container, spinner apart
    spinner,                    \* whether #spinner is in the page
    spinnerFading,              \* whether the fadeOut of line 347 is running
                                \* on the #spinner that is in the page
    sendButton,                 \* #send-button: "send" or "stop" mode
    sendContainer,              \* #send-button-container visible
    stopContainer,              \* #stop-button-container visible
    swal,                       \* whether the warning of Swal.fire is shown
    reqs,                       \* the invocations of handleChatMessage that
                                \* passed validation, by number
    nReq,                       \* how many there are
    edits                       \* how many times the user has edited the form or
                                \* sent an empty submission
                                \* or queued a file

form == <<questionField, agentSelectValue, agentSelectDescription, specificField>>
ctl == <<isRequestInProgress, currentAbortController, isManualAbort>>
ui == <<spinner, spinnerFading, sendButton, sendContainer, stopContainer>>
vars == <<isRequestInProgress, currentAbortController, isManualAbort,
          specificDataConfig, questionField, agentSelectValue,
          agentSelectDescription, specificField, pond, nextFile, chat, spinner,
          spinnerFading, sendButton, sendContainer, stopContainer, swal, reqs, nReq, edits>>

\* --------------------------------------------------------------- requests
\* handleChatMessage's position: "encoding" awaits Promise.all (line 114),
\* "fetch" awaits fetch (line 207), "body" awaits response.json() (lines 218,
\* 225), "done" has run the finally block, "rejected" left the function by
\* the rejection of line 114, which no try block encloses.
NoData == [sent |-> FALSE]

NoReq ==
    [pc |-> "none", question |-> <<>>, selectedPrompt |-> <<>>,
     selectedDescription |-> <<>>, specificDataValue |-> <<>>,
     files |-> <<>>, settled |-> <<>>, data |-> NoData,
     aborted |-> FALSE, timer |-> "unset", ok |-> FALSE,
     \* what follows records what the handler did
     outcome |-> "none", rendered |-> <<>>, hides |-> 0, resets |-> 0,
     cancelIntent |-> "none",
     \* how many times line 207 called fetch for this request
     calls |-> 0,
     \* how many times lines 215 and 228 called clearTimeout for its timer
     clears |-> 0]

ReqIds == 1..MaxReq

\* a handler that has passed the guard of line 74 and has not completed
Running(r) == reqs[r].pc \in {"encoding", "fetch", "body"}
\* a network call that has been issued and has not ended
Outstanding(r) == reqs[r].pc \in {"fetch", "body"}

Init ==
    /\ isRequestInProgress = FALSE
    /\ currentAbortController = Null
    /\ isManualAbort = FALSE
    /\ specificDataConfig \in ConfigChoices
    /\ questionField = <<>>
    /\ agentSelectValue = <<>>
    /\ agentSelectDescription = <<>>
    /\ specificField = <<>>
    /\ pond = <<>>
    /\ nextFile = 1
    /\ chat = <<>>
    /\ spinner = FALSE
    /\ spinnerFading = FALSE
    /\ sendButton = "send"
    /\ sendContainer = TRUE
    /\ stopContainer \in BOOLEAN
    /\ swal = FALSE
    /\ reqs = [r \in ReqIds |-> NoReq]
    /\ nReq = 0
    /\ edits = 0

\* ------------------------------------------------------------ pure parts
\* line 396
requiredFields == {"document_name", "document_type", "causes", "is_valid"}

\* lines 400-429: the card of one document, as the text its elements hold in
\* document order; a document is the set of its field names (`has`) and
\* the values of the fields the code reads
DocumentCard(doc) ==
    [role |-> "bot", class |-> "document-section card mt-2 mb-2",
     text |-> <<"Archivo: ">> \o doc.document_name \o doc.document_type
              \o (IF ~doc.is_valid /\ Len(doc.causes) > 0
                  THEN <<"Causales de Rechazo:">> \o doc.causes
                  ELSE IF doc.is_valid THEN <<"Documento valido.">> ELSE <<>>),
     pencil |-> FALSE, question |-> <<>>]

\* lines 395-431: one card for each document that has the required fields,
\* in the order of the list; a document without one of them is skipped
RECURSIVE display_document_validation(_)
display_document_validation(document_list) ==
    IF document_list = <<>>
    THEN <<>>
    ELSE (IF requiredFields \subseteq Head(document_list).has
          THEN <<DocumentCard(Head(document_list))>>
          ELSE <<>>)
         \o display_document_validation(Tail(document_list))

\* the guard of line 74 left out
ReentrancyGuardDropped == FALSE

\* line 74
ReentrancyGuard == isRequestInProgress

\* line 79 without its trim()
ReadQuestionUntrimmed(field) == field

\* line 79
ReadQuestion(field) == Trim(field)

\* lines 84-87
ReadSpecificData(cfg, field) == IF ConfigEnabled(cfg) THEN Trim(field) ELSE <<>>

\* line 89
EmptySubmission(question, selectedPrompt) ==
    ~Truthy(question) /\ ~Truthy(selectedPrompt)

\* lines 243-277: the entry appended to the transcript
displayUserMessage(question, selectedDescription, specificDataValue, selectedPrompt) ==
    LET sep == <<": ">>
        shown ==
            IF Truthy(specificDataValue) /\ Truthy(question) /\ ~Truthy(selectedPrompt)
            THEN [text |-> specificDataValue \o sep \o question, pencil |-> TRUE]
            ELSE IF Truthy(specificDataValue) /\ ~Truthy(question) /\ Truthy(selectedPrompt)
            THEN [text |-> specificDataValue \o sep \o selectedDescription, pencil |-> TRUE]
            ELSE IF ~Truthy(specificDataValue) /\ Truthy(selectedPrompt)
            THEN [text |-> selectedDescription, pencil |-> FALSE]
            ELSE [text |-> question, pencil |-> TRUE]
    IN  [role |-> "user", class |-> "message shadow-sm", text |-> shown.text,
         pencil |-> shown.pencil, question |-> question]

\* a bot entry (displayBotMessage, lines 280-284)
BotEntry(class, text) ==
    [role |-> "bot", class |-> class, text |-> text, pencil |-> FALSE,
     question |-> <<>>]

\* lines 116-125 with the second test of line 122 left out
BuildClientDataAlways(cfg, question, selectedPrompt, specificDataValue) ==
    LET base == [k \in {"prompt_name", "question"} |->
                    IF k = "question" THEN question ELSE selectedPrompt]
    IN  IF ConfigEnabled(cfg)
        THEN [k \in DOMAIN base \cup {cfg.data_key} |->
                 IF k = cfg.data_key THEN specificDataValue ELSE base[k]]
        ELSE base

\* lines 116-125
BuildClientData(cfg, question, selectedPrompt, specificDataValue) ==
    LET base == [k \in {"prompt_name", "question"} |->
                    IF k = "question" THEN question ELSE selectedPrompt]
    IN  IF ConfigEnabled(cfg) /\ Truthy(specificDataValue)
        THEN [k \in DOMAIN base \cup {cfg.data_key} |->
                 IF k = cfg.data_key THEN specificDataValue ELSE base[k]]
        ELSE base

\* line 114: Promise.all keeps the order of its input, whatever the order in
\* which the promises settle
PromiseAll(files, settled) ==
    [i \in 1..Len(files) |->
        IF \E k \in 1..Len(settled) : settled[k] = i
        THEN toBase64(files[i]) ELSE Unsettled]

\* Promise.race in the place of Promise.all: the first encoding that settles
\* lets the handler go on
JoinReadyFirst(files, settled) == Len(files) = 0 \/ Len(settled) >= 1

\* line 114: Promise.all fulfils when every promise has
JoinReady(files, settled) == Len(settled) = Len(files)

\* lines 127-136
BuildData(cfg, question, selectedPrompt, specificDataValue, filesBase64) ==
    [sent |-> TRUE,
     question |-> question,
     prompt_name |-> selectedPrompt,
     client_data |-> BuildClientData(cfg, question, selectedPrompt, specificDataValue),
     files |-> [i \in 1..Len(filesBase64) |->
                  [filename |-> filesBase64[i].name, content |-> filesBase64[i].base64]],
     external_user_id |-> ExternalUserId]

\* the test of line 159 negated
AbortNoticeSwapped(manual) ==
    IF ~manual
    THEN [role |-> "bot", class |-> "error-section alert alert-warning",
          text |-> CancelText, pencil |-> FALSE, question |-> <<>>]
    ELSE [role |-> "bot", class |-> "error-section alert alert-danger",
          text |-> TimeoutText, pencil |-> FALSE, question |-> <<>>]

\* lines 157-170: the notice of an aborted request
AbortNotice(manual) ==
    IF manual
    THEN BotEntry("error-section alert alert-warning", CancelText)
    ELSE BotEntry("error-section alert alert-danger", TimeoutText)

\* the reset of line 164 left out
FlagNotReset(manual) == manual

\* lines 159-165: window.isManualAbort after the catch block
FlagAfterAbort(manual) == FALSE

\* lines 157-170: how an aborted request ends
AbortOutcome(manual) == IF manual THEN "Cancelled" ELSE "TimedOut"

\* the assignment of line 315 left out
ManualMarkMissing == isManualAbort

\* line 315: window.isManualAbort = true
ManualMark == TRUE

\* the second test of line 314 negated
AbortGuardNegated == currentAbortController # Null /\ ~isRequestInProgress

\* line 314
AbortGuard == currentAbortController # Null /\ isRequestInProgress

\* lines 324-344: a #spinner that is in the page is removed and a new one is
\* appended
showSpinner == [spinner |-> TRUE, fading |-> FALSE]

\* lines 346-350: fadeOut starts on the #spinner that is in the page, if there
\* is one, and returns; the element stays in the page until the animation
\* has ended
hideSpinner(shown) == [spinner |-> shown, fading |-> shown]

\* lines 287-295
setButtonToStop == [button |-> "stop", inProgress |-> TRUE]

\* lines 298-307
setButtonToSend == [button |-> "send", inProgress |-> FALSE, controller |-> Null]

\* lines 215, 228: clearTimeout
clearTimeout(timer) == IF timer = "armed" THEN "cleared" ELSE timer

\* lines 215 and 228 calling clearTimeout with another id than the one of
\* line 204: the timer of the request stays armed
ClearTimerForgotten(rs, r) ==
    [rs EXCEPT ![r] = [@ EXCEPT !.clears = @ + 1]]

\* lines 215 and 228: clearTimeout(timeoutId) in the handler of request r
ClearTimer(rs, r) ==
    [rs EXCEPT ![r] = [@ EXCEPT !.timer = clearTimeout(@), !.clears = @ + 1]]

\* lines 217-223: the text shown for a response that is not ok
ServerErrorText(body) ==
    IF Truthy(body.error_message) THEN body.error_message ELSE UnknownServerText

\* lines 234-236
CommErrorEntry(message) == BotEntry("error-section", ConnPrefix \o message)

\* the payload built from the fields of the form as they are when the
\* encodings end, not from the constants of lines 79-87
PayloadInputsLive(rec) ==
    [question |-> Trim(questionField), selectedPrompt |-> agentSelectValue,
     specificDataValue |-> IF ConfigEnabled(specificDataConfig)
                           THEN Trim(specificField) ELSE <<>>]

\* lines 116-136: the values the payload is built from are the constants
\* that lines 79-87 captured
PayloadInputs(rec) ==
    [question |-> rec.question, selectedPrompt |-> rec.selectedPrompt,
     specificDataValue |-> rec.specificDataValue]

\* lines 116-139 and 188-213: build the payload, create the controller, arm
\* the timer and call fetch
IssueFetch(rec) ==
    LET in == PayloadInputs(rec)
    IN  [rec EXCEPT
            !.pc = "fetch",
            !.data = BuildData(specificDataConfig, in.question, in.selectedPrompt,
                               in.specificDataValue,
                               PromiseAll(rec.files, rec.settled)),
            !.timer = "armed",
            !.calls = @ + 1]

\* a Cancel intent was issued while the request was running; `via` is "stop"
\* for the stop button and "send" for a Send intent
NoteCancelIntent(rs, via) ==
    [r \in ReqIds |->
        IF rs[r].pc \in {"encoding", "fetch", "body"}
        THEN [rs[r] EXCEPT !.cancelIntent = via] ELSE rs[r]]

\* ----------------------------------------------------------- user edits
\* typing in #question
EditQuestion(v) ==
    /\ edits < MaxEdits
    /\ edits' = edits + 1
    /\ questionField' = v
    /\ UNCHANGED <<ctl, specificDataConfig, agentSelectValue, agentSelectDescription,
                   specificField, pond, nextFile, chat, ui, swal, reqs, nReq>>

\* lines 26-46: choosing a prompt of the dropdown
SelectPrompt(item) ==
    /\ edits < MaxEdits
    /\ edits' = edits + 1
    /\ agentSelectValue' = item.value
    /\ agentSelectDescription' = Trim(item.text)
    /\ UNCHANGED <<ctl, specificDataConfig, questionField, specificField, pond,
                   nextFile, chat, ui, swal, reqs, nReq>>

\* typing in the company specific input, which exists when it is enabled
EditSpecific(v) ==
    /\ ConfigEnabled(specificDataConfig)
    /\ edits < MaxEdits
    /\ edits' = edits + 1
    /\ specificField' = v
    /\ UNCHANGED <<ctl, specificDataConfig, questionField, agentSelectValue,
                   agentSelectDescription, pond, nextFile, chat, ui, swal,
                   reqs, nReq>>

\* dropping a file on the FilePond widget
AddFile ==
    /\ edits < MaxEdits
    /\ edits' = edits + 1
    /\ nextFile <= MaxFiles
    /\ pond' = Append(pond, nextFile)
    /\ nextFile' = nextFile + 1
    /\ UNCHANGED <<ctl, specificDataConfig, form, chat, ui, swal, reqs, nReq>>

\* a click handler that takes the message back: it copies the question into
\* #question and removes the message from the transcript
EditIconClickTakesBack(k) ==
    /\ edits < MaxEdits
    /\ edits' = edits + 1
    /\ k \in 1..Len(chat)
    /\ chat[k].pencil
    /\ questionField' = chat[k].question
    /\ chat' = SubSeq(chat, 1, k - 1) \o SubSeq(chat, k + 1, Len(chat))
    /\ UNCHANGED <<ctl, specificDataConfig, agentSelectValue, agentSelectDescription,
                   specificField, pond, nextFile, ui, swal, reqs, nReq>>

\* lines 270-272: a click on the edit icon of the k-th entry of the
\* transcript, which exists when line 266 found `pencil` true
EditIconClick(k) ==
    /\ edits < MaxEdits
    /\ edits' = edits + 1
    /\ k \in 1..Len(chat)
    /\ chat[k].pencil
    /\ questionField' = chat[k].question
    /\ UNCHANGED <<ctl, specificDataConfig, agentSelectValue, agentSelectDescription,
                   specificField, pond, nextFile, chat, ui, swal, reqs, nReq>>

\* ------------------------------------------------------ the end of a request
\* the end of a handler whose sections are built and never handed to
\* displayBotMessage: nothing is appended to the transcript
FinishNothingShown(r, rs, entries, outcome, catches, extraHides, flag) ==
    /\ chat' = chat
    /\ spinner' = hideSpinner(spinner).spinner
    /\ spinnerFading' = hideSpinner(spinner).fading
    /\ sendButton' = setButtonToSend.button
    /\ isRequestInProgress' = setButtonToSend.inProgress
    /\ currentAbortController' = setButtonToSend.controller
    /\ isManualAbort' = flag
    /\ pond' = <<>>
    /\ reqs' = [rs EXCEPT ![r] =
                  [NoReq EXCEPT !.pc = "done",
                                !.aborted = rs[r].aborted,
                                !.timer = rs[r].timer,
                                !.outcome = outcome,
                                !.rendered = entries,
                                !.hides = rs[r].hides + 1 + catches + extraHides,
                                !.resets = rs[r].resets + 1 + catches,
                                !.cancelIntent = rs[r].cancelIntent,
                                !.calls = rs[r].calls,
                                !.clears = rs[r].clears]]

\* lines 179-183 (and 177-178 when the catch block ran): the handler of
\* request r ends with `entries` appended; `catches` is 1 when the catch
\* block of line 154 ran, `extraHides` counts hideSpinner calls made on the
\* way by abortCurrentRequest. The constants of the handler (lines 79-136)
\* go out of scope.
Finish(r, rs, entries, outcome, catches, extraHides, flag) ==
    /\ chat' = chat \o entries
    /\ spinner' = hideSpinner(spinner).spinner
    /\ spinnerFading' = hideSpinner(spinner).fading
    /\ sendButton' = setButtonToSend.button
    /\ isRequestInProgress' = setButtonToSend.inProgress
    /\ currentAbortController' = setButtonToSend.controller
    /\ isManualAbort' = flag
    /\ pond' = <<>>
    /\ reqs' = [rs EXCEPT ![r] =
                  [NoReq EXCEPT !.pc = "done",
                                !.aborted = rs[r].aborted,
                                !.timer = rs[r].timer,
                                !.outcome = outcome,
                                !.rendered = entries,
                                !.hides = rs[r].hides + 1 + catches + extraHides,
                                !.resets = rs[r].resets + 1 + catches,
                                !.cancelIntent = rs[r].cancelIntent,
                                !.calls = rs[r].calls,
                                !.clears = rs[r].clears]]

\* lines 227-233 without the test of line 230: the catch block of callLLMAPI
\* renders the AbortError as a connection error and rethrows it, and the
\* catch block of handleChatMessage renders its notice as well
AbortCaughtShownTwice(r, rs, manual, extraHides) ==
    Finish(r, ClearTimer(rs, r),
           <<CommErrorEntry(<<"The user aborted a request.">>), AbortNotice(manual)>>,
           AbortOutcome(manual), 1, extraHides, FlagAfterAbort(manual))

\* lines 227-233 and 154-170: the AbortError of request r reaches the catch
\* block of handleChatMessage; `manual` is window.isManualAbort there
AbortCaught(r, rs, manual, extraHides) ==
    Finish(r, ClearTimer(rs, r), <<AbortNotice(manual)>>, AbortOutcome(manual), 1,
           extraHides, FlagAfterAbort(manual))

\* lines 313-320 for a fetch that was not given the signal of line 211:
\* controller.abort() wakes nothing and the call goes on
abortCurrentRequestUnheard(via) ==
    IF AbortGuard
    THEN /\ sendContainer' = TRUE
         /\ stopContainer' = FALSE
         /\ isManualAbort' = ManualMark
         /\ spinner' = hideSpinner(spinner).spinner
         /\ spinnerFading' = hideSpinner(spinner).fading
         /\ reqs' = [NoteCancelIntent(reqs, via) EXCEPT
                        ![currentAbortController].aborted = TRUE]
         /\ UNCHANGED <<isRequestInProgress, currentAbortController, pond, chat,
                        sendButton, specificDataConfig, form, nextFile, swal,
                        nReq, edits>>
    ELSE /\ reqs' = NoteCancelIntent(reqs, via)
         /\ UNCHANGED <<ctl, specificDataConfig, form, pond, nextFile, chat, ui,
                        swal, nReq, edits>>

\* lines 313-320, with the continuations that controller.abort() wakes
abortCurrentRequest(via) ==
    IF AbortGuard
    THEN LET c == currentAbortController
             rs == [NoteCancelIntent(reqs, via) EXCEPT ![c].aborted = TRUE]
         IN  /\ sendContainer' = TRUE
             /\ stopContainer' = FALSE
             /\ IF Outstanding(c) /\ ~reqs[c].aborted
                THEN AbortCaught(c, rs, ManualMark, 1)
                ELSE /\ isManualAbort' = ManualMark
                     /\ spinner' = hideSpinner(spinner).spinner
                     /\ spinnerFading' = hideSpinner(spinner).fading
                     /\ reqs' = rs
                     /\ UNCHANGED <<isRequestInProgress, currentAbortController,
                                    pond, chat, sendButton>>
             /\ UNCHANGED <<specificDataConfig, form, nextFile, swal, nReq, edits>>
    ELSE /\ reqs' = NoteCancelIntent(reqs, via)
         /\ UNCHANGED <<ctl, specificDataConfig, form, pond, nextFile, chat, ui,
                        swal, nReq, edits>>

\* line 16: a click on #stop-button
StopClick ==
    /\ stopContainer
    /\ abortCurrentRequest("stop")

\* ------------------------------------------------------ handleChatMessage
\* lines 74-77 calling an abortCurrentRequest that runs line 315 before the
\* test of line 314
SendWhileInProgressMarksFirst ==
    /\ ReentrancyGuard
    /\ IF AbortGuard
       THEN abortCurrentRequest("send")
       ELSE /\ reqs' = NoteCancelIntent(reqs, "send")
            /\ isManualAbort' = TRUE
            /\ UNCHANGED <<isRequestInProgress, currentAbortController,
                           specificDataConfig, form, pond, nextFile, chat, ui,
                           swal, nReq, edits>>

\* lines 74-77: a Send intent (click or Enter) while a request is in progress
SendWhileInProgress ==
    /\ ReentrancyGuard
    /\ abortCurrentRequest("send")

\* lines 79-96: a Send intent with nothing to send
SendRejected ==
    /\ ~ReentrancyGuard
    /\ EmptySubmission(ReadQuestion(questionField), agentSelectValue)
    /\ edits < MaxEdits
    /\ edits' = edits + 1
    /\ swal' = TRUE
    /\ UNCHANGED <<ctl, specificDataConfig, form, pond, nextFile, chat, ui, reqs,
                   nReq>>

\* lines 79-139: a Send intent that is accepted; with no file queued
\* Promise.all([]) is fulfilled at once and the same task reaches fetch
SendAccepted ==
    LET question == ReadQuestion(questionField)
        selectedPrompt == agentSelectValue
        selectedDescription == agentSelectDescription
        specificDataValue == ReadSpecificData(specificDataConfig, specificField)
        r == nReq + 1
        rec == [NoReq EXCEPT
                   !.pc = "encoding", !.question = question,
                   !.selectedPrompt = selectedPrompt,
                   !.selectedDescription = selectedDescription,
                   !.specificDataValue = specificDataValue,
                   !.files = pond]
    IN  /\ ~ReentrancyGuard
        /\ ~EmptySubmission(question, selectedPrompt)
        /\ nReq < MaxReq
        /\ nReq' = r
        /\ chat' = Append(chat, displayUserMessage(question, selectedDescription,
                                                   specificDataValue, selectedPrompt))
        /\ spinner' = showSpinner.spinner
        /\ spinnerFading' = showSpinner.fading
        /\ sendButton' = setButtonToStop.button
        /\ isRequestInProgress' = setButtonToStop.inProgress
        /\ questionField' = <<>>
        /\ agentSelectValue' = <<>>
        /\ agentSelectDescription' = <<>>
        /\ specificField' = IF ConfigEnabled(specificDataConfig) THEN <<>> ELSE specificField
        /\ IF JoinReady(rec.files, rec.settled)
           THEN /\ reqs' = [reqs EXCEPT ![r] = IssueFetch(rec)]
                /\ currentAbortController' = r
           ELSE /\ reqs' = [reqs EXCEPT ![r] = rec]
                /\ UNCHANGED currentAbortController
        /\ UNCHANGED <<isManualAbort, specificDataConfig, pond, nextFile,
                       sendContainer, stopContainer, swal, edits>>

\* ------------------------------------------------------------- encodings
\* lines 385-392, reader.onload of the i-th file of request r; the last one
\* fulfils Promise.all and the handler goes on to fetch
EncodeDone(r, i) ==
    /\ reqs[r].pc \in {"encoding", "rejected"}
    /\ i \in 1..Len(reqs[r].files)
    /\ \A k \in 1..Len(reqs[r].settled) : reqs[r].settled[k] # i
    /\ LET rec == [reqs[r] EXCEPT !.settled = Append(@, i)]
       IN  IF rec.pc = "encoding" /\ JoinReady(rec.files, rec.settled)
           THEN /\ reqs' = [reqs EXCEPT ![r] = IssueFetch(rec)]
                /\ currentAbortController' = r
           ELSE /\ reqs' = [reqs EXCEPT ![r] = rec]
                /\ UNCHANGED currentAbortController
    /\ UNCHANGED <<isRequestInProgress, isManualAbort, specificDataConfig, form,
                   pond, nextFile, chat, ui, swal, nReq, edits>>

\* lines 385-392, reader.onerror: Promise.all rejects, and the rejection leaves
\* handleChatMessage at line 114, before its try block
EncodeFail(r, i) ==
    /\ reqs[r].pc \in {"encoding", "rejected"}
    /\ i \in 1..Len(reqs[r].files)
    /\ \A k \in 1..Len(reqs[r].settled) : reqs[r].settled[k] # i
    /\ reqs' = [reqs EXCEPT ![r] = [@ EXCEPT !.settled = Append(@, i),
                                              !.pc = "rejected"]]
    /\ UNCHANGED <<ctl, specificDataConfig, form, pond, nextFile, chat, ui,
                   swal, nReq, edits>>

\* --------------------------------------------------------------- network
\* lines 207-215: fetch is fulfilled with a response (its status line and
\* headers); the timer is cleared
FetchResponse(r, ok) ==
    /\ reqs[r].pc = "fetch"
    /\ reqs' = [ClearTimer(reqs, r) EXCEPT ![r] = [@ EXCEPT !.pc = "body", !.ok = ok]]
    /\ UNCHANGED <<ctl, specificDataConfig, form, pond, nextFile, chat, ui,
                   swal, nReq, edits>>

\* lines 227-239: fetch is rejected with a network error
FetchError(r) ==
    /\ reqs[r].pc = "fetch"
    /\ Finish(r, ClearTimer(reqs, r), <<CommErrorEntry(FetchFailedMessage)>>,
              "Failed", 0, 0, isManualAbort)
    /\ UNCHANGED <<specificDataConfig, form, nextFile, sendContainer,
                   stopContainer, swal, nReq, edits>>

\* lines 217-226 and 140-153: response.json() settles with body b. With a
\* status that is not ok, line 220 reads errorData.error_message: a body that
\* is no JSON makes response.json() throw, a body that is null makes line
\* 220 throw, and both land in the catch of line 227
BodyArrives(r, b) ==
    /\ reqs[r].pc = "body"
    /\ IF ~b.parses
       THEN Finish(r, ClearTimer(reqs, r), <<CommErrorEntry(SyntaxErrorMessage)>>,
                   "Failed", 0, 0, isManualAbort)
       ELSE IF ~reqs[r].ok /\ b.isNull
       THEN Finish(r, ClearTimer(reqs, r), <<CommErrorEntry(NullErrorMessage)>>,
                   "Failed", 0, 0, isManualAbort)
       ELSE IF ~reqs[r].ok
       THEN Finish(r, reqs, <<BotEntry("error-section", ServerErrorText(b))>>,
                   "Failed", 0, 0, isManualAbort)
       ELSE Finish(r, reqs,
                   IF Truthy(b.answer)
                   THEN <<BotEntry("answer-section llm-output", b.answer)>>
                   ELSE <<>>,
                   "Completed", 0, 0, isManualAbort)
    /\ UNCHANGED <<specificDataConfig, form, nextFile, sendContainer,
                   stopContainer, swal, nReq, edits>>

\* lines 218, 225 and 227-239: the connection fails while the body is read;
\* response.json() rejects with a network error, after the clearTimeout of
\* line 215, and the catch of line 227 calls clearTimeout again
BodyError(r) ==
    /\ reqs[r].pc = "body"
    /\ Finish(r, ClearTimer(reqs, r), <<CommErrorEntry(FetchFailedMessage)>>,
              "Failed", 0, 0, isManualAbort)
    /\ UNCHANGED <<specificDataConfig, form, nextFile, sendContainer,
                   stopContainer, swal, nReq, edits>>

\* line 204: the timer of request r fires and aborts the controller of r
TimerFires(r) ==
    /\ reqs[r].timer = "armed"
    /\ LET rs == [reqs EXCEPT ![r] = [@ EXCEPT !.timer = "fired", !.aborted = TRUE]]
       IN  IF Outstanding(r) /\ ~reqs[r].aborted
           THEN AbortCaught(r, rs, isManualAbort, 0)
           ELSE /\ reqs' = rs
                /\ UNCHANGED <<ctl, pond, chat, spinner, spinnerFading,
                               sendButton>>
    /\ UNCHANGED <<specificDataConfig, form, nextFile, sendContainer,
                   stopContainer, swal, nReq, edits>>

\* lines 72-184, for a click on #send-button or Enter in #question
handleChatMessage ==
    \/ SendWhileInProgress
    \/ SendRejected
    \/ SendAccepted

\* lines 347-349: the animation of fadeOut has ended and its callback
\* removes the #spinner it ran on
SpinnerFadeEnds ==
    /\ spinnerFading
    /\ spinner' = FALSE
    /\ spinnerFading' = FALSE
    /\ UNCHANGED <<ctl, specificDataConfig, form, pond, nextFile, chat, sendButton,
                   sendContainer, stopContainer, swal, reqs, nReq, edits>>

\* lines 395-431: display_document_validation(document_list) appends the
\* cards of the list to the transcript. Its one call, at lines 148-152, is
\* inside a comment: no handler of this file reaches it, and it is no
\* disjunct of Next
DocumentValidation(document_list) ==
    /\ chat' = chat \o display_document_validation(document_list)
    /\ UNCHANGED <<ctl, specificDataConfig, form, pond, nextFile, ui, swal, reqs,
                   nReq, edits>>

\* closing the warning
DismissWarning ==
    /\ swal
    /\ swal' = FALSE
    /\ UNCHANGED <<ctl, specificDataConfig, form, pond, nextFile, chat, ui, reqs,
                   nReq, edits>>

Next ==
    \/ \E v \in QuestionInputs : EditQuestion(v)
    \/ \E item \in PromptItems : SelectPrompt(item)
    \/ \E v \in SpecificInputs : EditSpecific(v)
    \/ AddFile
    \/ \E k \in 1..2 * MaxReq : EditIconClick(k)
    \/ StopClick
    \/ handleChatMessage
    \/ DismissWarning
    \/ SpinnerFadeEnds
    \/ \E r \in ReqIds, i \in 1..MaxFiles + 1 : EncodeDone(r, i)
    \/ \E r \in ReqIds, i \in 1..MaxFiles + 1 : EncodeFail(r, i)
    \/ \E r \in ReqIds, ok \in BOOLEAN : FetchResponse(r, ok)
    \/ \E r \in ReqIds : FetchError(r)
    \/ \E r \in ReqIds, b \in Bodies : BodyArrives(r, b)
    \/ \E r \in ReqIds : BodyError(r)
    \/ \E r \in ReqIds : TimerFires(r)

Spec == Init /\ [][Next]_vars

\* ================================================================ claims
CancelNotice == BotEntry("error-section alert alert-warning", CancelText)
TimeoutNotice == BotEntry("error-section alert alert-danger", TimeoutText)

\* the handlers that passed the guard of line 74 and have not run the
\* cleanup of lines 179-183
PastGuard == {r \in ReqIds : reqs[r].pc \in {"encoding", "fetch", "body", "rejected"}}
\* the network calls that have been issued and have not ended
Calls == {r \in ReqIds : Outstanding(r)}

\* C1: at no instant have two submissions passed the re-entrancy guard
\* without having reached the terminal cleanup, and at no instant are two
\* network calls outstanding.
C1_SingleFlight ==
    /\ Cardinality(PastGuard) <= 1
    /\ Cardinality(Calls) <= 1

\* C1 witness: a second request is in flight after the first one, which a
\* Send intent during its flight cancelled, has ended.
C1_Witness ==
    /\ reqs[1].pc = "done"
    /\ reqs[1].outcome = "Cancelled"
    /\ Outstanding(2)

\* C2: the cause of an abort is attributed per request. The cancellation
\* wording is rendered only for a request during which a Cancel intent was
\* issued; a request that the deadline ended, with no Cancel intent during
\* it, is rendered with the timeout wording; and the manual-cancel mark is
\* never set while a request runs during which no Cancel intent was issued
\* (so none is left over when a request starts).
C2_CausePerRequest ==
    /\ \A r \in ReqIds :
          (\E k \in 1..Len(reqs[r].rendered) : reqs[r].rendered[k].text = CancelText)
              => reqs[r].cancelIntent # "none"
    /\ \A r \in ReqIds :
          (reqs[r].pc = "done" /\ reqs[r].timer = "fired"
           /\ reqs[r].cancelIntent = "none")
              => (reqs[r].rendered = <<TimeoutNotice>> /\ reqs[r].outcome = "TimedOut")
    /\ \A r \in ReqIds :
          (Running(r) /\ reqs[r].cancelIntent = "none") => ~isManualAbort

\* C2 witness: the first request was cancelled by the user, the second one
\* was resent and ended by its deadline, with the timeout wording.
C2_Witness ==
    /\ reqs[1].outcome = "Cancelled"
    /\ reqs[1].rendered = <<CancelNotice>>
    /\ reqs[2].pc = "done"
    /\ reqs[2].timer = "fired"
    /\ reqs[2].cancelIntent = "none"
    /\ reqs[2].rendered = <<TimeoutNotice>>

\* a Cancel intent: a click on the stop button, or a Send intent while a
\* request is in progress
CancelIntentStep == StopClick \/ SendWhileInProgress

\* C3: a user cancel of an in-flight request before any response has arrived
\* ends that request as Cancelled and appends the cancellation wording, not
\* the timeout wording, also when the deadline timer of the request is still
\* armed at the cancel; and that timer can no longer fire afterwards.
C3_CancelWording ==
    [][\A r \in ReqIds :
          (reqs[r].pc = "fetch" /\ currentAbortController = r /\ CancelIntentStep)
              => /\ reqs'[r].pc = "done"
                 /\ reqs'[r].outcome = "Cancelled"
                 /\ chat' = Append(chat, CancelNotice)
                 /\ reqs'[r].timer # "armed"]_vars

\* C3 witness: a request was cancelled while its timer was armed and the
\* transcript ends with the cancellation wording.
C3_Witness ==
    /\ reqs[1].outcome = "Cancelled"
    /\ reqs[1].cancelIntent = "stop"
    /\ reqs[1].aborted
    /\ reqs[1].timer = "cleared"
    /\ chat # <<>>
    /\ chat[Len(chat)] = CancelNotice

\* C4: when the deadline of an in-flight request expires and the user has not
\* cancelled it, the request ends as TimedOut and the transcript receives the
\* timeout wording, not the cancellation wording and not a connection error.
C4_TimeoutWording ==
    [][\A r \in ReqIds :
          (Outstanding(r) /\ ~reqs[r].aborted /\ TimerFires(r))
              => /\ reqs'[r].pc = "done"
                 /\ reqs'[r].outcome = "TimedOut"
                 /\ chat' = Append(chat, TimeoutNotice)]_vars

\* C4 witness: a request ended by its timer and the transcript ends with the
\* timeout wording.
C4_Witness ==
    /\ reqs[1].pc = "done"
    /\ reqs[1].timer = "fired"
    /\ reqs[1].outcome = "TimedOut"
    /\ chat[Len(chat)] = TimeoutNotice

\* C5 (as claimed): for every request that ended, whatever its outcome, the
\* cleanup (hideSpinner, setButtonToSend) was executed exactly once.
C5_CleanupExactlyOnce ==
    \A r \in ReqIds :
        reqs[r].pc = "done" => (reqs[r].hides = 1 /\ reqs[r].resets = 1)

\* C6 (as claimed): a submission that passed validation brings the controller
\* back to Idle on every exit path: when no handler is waiting any more (for
\* an encoding, for fetch or for a body), no request is in progress, the
\* token is released, the spinner is hidden (or fading out, on its way to
\* hidden) and the send affordance is back.
C6_BackToIdle ==
    (\A r \in ReqIds : ~Running(r))
        => /\ ~isRequestInProgress
           /\ currentAbortController = Null
           /\ (spinner => spinnerFading)
           /\ sendButton = "send"

\* C7: a Send intent that arrives while a request is in flight signals the
\* token of that request, which ends as Cancelled with the cancellation
\* notice; the intent starts no request, appends no user message, leaves the
\* form as it is, and nothing is left running afterwards.
C7_SendWhileInFlightCancels ==
    [][\A r \in ReqIds :
          (Outstanding(r) /\ handleChatMessage)
              => /\ reqs'[r].aborted
                 /\ reqs'[r].pc = "done"
                 /\ reqs'[r].outcome = "Cancelled"
                 /\ nReq' = nReq
                 /\ chat' = Append(chat, CancelNotice)
                 /\ \A q \in ReqIds : reqs'[q].pc \notin {"encoding", "fetch", "body"}
                 /\ UNCHANGED form]_vars

\* C7 witness: a Send intent cancelled the only request there has been; the
\* transcript holds its user message and the cancellation notice.
C7_Witness ==
    /\ nReq = 1
    /\ reqs[1].outcome = "Cancelled"
    /\ reqs[1].cancelIntent = "send"
    /\ Len(chat) = 2
    /\ chat[2] = CancelNotice

\* C8: a Send intent while Idle, with the trimmed question and the selected
\* prompt both empty, only raises the warning: the request state, the
\* transcript, the spinner, the affordances, the form and the attachment queue
\* are unchanged, and no request (hence no network call) is started.
C8_EmptySubmissionRejected ==
    [][(/\ ~isRequestInProgress
        /\ Trim(questionField) = <<>>
        /\ agentSelectValue = <<>>
        /\ handleChatMessage)
           => /\ swal'
              /\ UNCHANGED <<isRequestInProgress, currentAbortController,
                             isManualAbort, questionField, agentSelectValue,
                             agentSelectDescription, specificField, pond, chat,
                             spinner, spinnerFading, sendButton, sendContainer,
                             stopContainer, reqs, nReq>>]_vars

\* C8 witness: a blank question was typed and sent; the warning is shown and
\* nothing else has happened.
C8_Witness ==
    /\ swal
    /\ questionField = <<" ">>
    /\ agentSelectValue = <<>>
    /\ chat = <<>>
    /\ nReq = 0
    /\ ~isRequestInProgress

\* C9: while the network call of a request is outstanding, every encoding of
\* its snapshot has completed and the files of the payload are one fully
\* encoded entry per attachment of the snapshot, in queue order, whatever the
\* order in which the encodings ended.
C9_JoinBarrier ==
    \A r \in ReqIds :
        Outstanding(r) =>
            /\ reqs[r].data.sent
            /\ {reqs[r].settled[k] : k \in 1..Len(reqs[r].settled)}
                   = 1..Len(reqs[r].files)
            /\ Len(reqs[r].data.files) = Len(reqs[r].files)
            /\ \A i \in 1..Len(reqs[r].files) :
                  reqs[r].data.files[i] =
                      [filename |-> <<"file", reqs[r].files[i]>>,
                       content |-> <<"b64", reqs[r].files[i]>>]

\* C9 witness: a call is outstanding with two attachments whose encodings
\* ended in the reverse of the queue order.
C9_Witness ==
    \E r \in ReqIds :
        /\ Outstanding(r)
        /\ reqs[r].files = <<1, 2>>
        /\ reqs[r].settled = <<2, 1>>
        /\ Len(reqs[r].data.files) = 2

\* C10: the payload is the snapshot taken when Sending began: while the call
\* is outstanding its question, prompt_name and client_data are the values
\* captured at the Send intent, whatever the form holds by then, and no step
\* (an edit of the form among them) changes the payload of a call that stays
\* outstanding.
C10_PayloadIsSnapshot ==
    /\ [](\A r \in ReqIds :
            Outstanding(r) =>
                LET d == reqs[r].data
                    key == specificDataConfig.data_key
                IN  /\ d.question = reqs[r].question
                    /\ d.prompt_name = reqs[r].selectedPrompt
                    /\ d.client_data["question"] = reqs[r].question
                    /\ d.client_data["prompt_name"] = reqs[r].selectedPrompt
                    /\ key \in DOMAIN d.client_data
                          => d.client_data[key] = reqs[r].specificDataValue)
    /\ [][\A r \in ReqIds :
            (Outstanding(r) /\ Outstanding(r)') => reqs'[r].data = reqs[r].data]_vars

\* C10 witness: a call is outstanding whose payload carries the question of
\* the Send intent while the form, edited during the encoding, holds another
\* text.
C10_Witness ==
    \E r \in ReqIds :
        /\ Outstanding(r)
        /\ reqs[r].files # <<>>
        /\ reqs[r].data.question = <<"Hello">>
        /\ questionField = <<" ">>

\* C11 (as claimed): every accepted submission results in exactly one call
\* of fetch: a request whose handler is past the wait for its encodings,
\* however it left it, has called fetch exactly once, and no request has
\* called it more often; a call is issued only by the handler of the Send
\* intent that was accepted last (in the step of the intent, or when the last
\* encoding of its files ends); the step that ends a request issues no call,
\* and a request that has ended never issues another one.
C11_OneCallPerSubmission ==
    /\ [](\A r \in ReqIds :
            /\ reqs[r].calls <= 1
            /\ reqs[r].pc \in {"fetch", "body", "done", "rejected"}
                  => reqs[r].calls = 1)
    /\ [][\A r \in ReqIds :
            /\ reqs'[r].calls # reqs[r].calls
                  => /\ reqs[r].pc \in {"none", "encoding"}
                     /\ reqs'[r].calls = reqs[r].calls + 1
                     /\ r = nReq'
                     /\ SendAccepted \/ \E i \in 1..MaxFiles : EncodeDone(r, i)
            /\ (reqs[r].pc # "done" /\ reqs'[r].pc = "done")
                  => \A q \in ReqIds : reqs'[q].calls = reqs[q].calls]_vars

\* C12 (as claimed): the user message appended by an accepted Send intent is
\* given by four rules over the structured field value, the question and the
\* selected prompt: (1) field set, question set, no prompt: "field: question"
\* with the edit affordance; (2) field set, question empty, prompt set:
\* "field: description" without the edit affordance; (3) field empty, prompt
\* set: the description without the edit affordance; (4) otherwise the raw
\* question with the edit affordance.
C12_DisplayRules ==
    [][SendAccepted =>
         LET q == Trim(questionField)
             f == IF ConfigEnabled(specificDataConfig) THEN Trim(specificField) ELSE <<>>
             p == agentSelectValue
             d == agentSelectDescription
             text == IF f # <<>> /\ q # <<>> /\ p = <<>> THEN f \o <<": ">> \o q
                     ELSE IF f # <<>> /\ q = <<>> /\ p # <<>> THEN f \o <<": ">> \o d
                     ELSE IF f = <<>> /\ p # <<>> THEN d
                     ELSE q
             affordance == IF f # <<>> /\ q # <<>> /\ p = <<>> THEN TRUE
                           ELSE IF f # <<>> /\ q = <<>> /\ p # <<>> THEN FALSE
                           ELSE IF f = <<>> /\ p # <<>> THEN FALSE
                           ELSE TRUE
         IN  /\ Len(chat') = Len(chat) + 1
             /\ chat'[Len(chat')].role = "user"
             /\ chat'[Len(chat')].text = text
             /\ chat'[Len(chat')].pencil = affordance]_vars

\* C13 (as claimed): when the body of a response whose status is not a
\* success settles, the request ends as Failed and exactly one error entry is
\* appended; its text is the error_message of the body when the body decodes
\* and carries one, and the generic server-error text when the body cannot be
\* decoded or carries no error_message.
C13_ServerErrorText ==
    [][\A r \in ReqIds, b \in Bodies :
          (reqs[r].pc = "body" /\ ~reqs[r].ok /\ BodyArrives(r, b))
              => /\ reqs'[r].pc = "done"
                 /\ reqs'[r].outcome = "Failed"
                 /\ Len(chat') = Len(chat) + 1
                 /\ SubSeq(chat', 1, Len(chat)) = chat
                 /\ chat'[Len(chat')].role = "bot"
                 /\ chat'[Len(chat')].text =
                        IF b.parses /\ b.error_message # <<>>
                        THEN b.error_message
                        ELSE <<"Error desconocido del servidor">>]_vars

\* C14: the value captured for the structured field by an accepted Send
\* intent is the trimmed text of the field when the field is enabled and
\* empty otherwise; and in the payload of every outstanding call the
\* configured key is in client_data if and only if the field is enabled and
\* that captured value is not empty, in which case the key carries that
\* value: the key is never sent with an empty text, and client_data holds no
\* other key than prompt_name, question and the configured one.
C14_StructuredKey ==
    /\ [][SendAccepted =>
            reqs'[nReq'].specificDataValue =
                IF specificDataConfig.defined /\ specificDataConfig.enabled
                THEN Trim(specificField) ELSE <<>>]_vars
    /\ [](\A r \in ReqIds :
            Outstanding(r) =>
                LET cd == reqs[r].data.client_data
                    key == specificDataConfig.data_key
                    enabled == specificDataConfig.defined /\ specificDataConfig.enabled
                IN  /\ key \in DOMAIN cd <=> (enabled /\ reqs[r].specificDataValue # <<>>)
                    /\ key \in DOMAIN cd =>
                          (cd[key] = reqs[r].specificDataValue /\ cd[key] # <<>>)
                    /\ DOMAIN cd \subseteq {"prompt_name", "question", key})

\* C14 witness: a call is outstanding whose client_data carries the
\* configured key with the trimmed text of the field.
C14_Witness ==
    \E r \in ReqIds :
        /\ Outstanding(r)
        /\ "client_rut" \in DOMAIN reqs[r].data.client_data
        /\ reqs[r].data.client_data["client_rut"] = <<"ACME">>

\* the classes of the sections that report an error
ErrorClasses ==
    {"error-section", "error-section alert alert-warning",
     "error-section alert alert-danger"}

\* the step appends exactly one entry, an error section with a text
AppendsErrorEntry ==
    /\ Len(chat') = Len(chat) + 1
    /\ SubSeq(chat', 1, Len(chat)) = chat
    /\ chat'[Len(chat')].role = "bot"
    /\ chat'[Len(chat')].class \in ErrorClasses
    /\ chat'[Len(chat')].text # <<>>

\* C15: a user cancel, a deadline expiry, a network failure, a response with
\* an error status and a response whose body cannot be decoded each end the
\* request with an error outcome; every step that ends a request with an
\* error outcome (Cancelled, TimedOut, Failed) appends one error entry to the
\* transcript; and the controller leaves the in-progress state only in a step
\* that ends a request, so never silently after an error. (Each of these
\* steps changes the record of its request, so only the requests whose
\* record changes in a step need to be looked at.)
C15_ErrorsAreShown ==
    [][/\ \A r \in ReqIds :
          reqs'[r] # reqs[r] =>
            /\ (Outstanding(r) /\ currentAbortController = r /\ CancelIntentStep)
                  => (reqs'[r].pc = "done" /\ reqs'[r].outcome = "Cancelled")
            /\ (Outstanding(r) /\ ~reqs[r].aborted /\ TimerFires(r))
                  => (reqs'[r].pc = "done" /\ reqs'[r].outcome = "TimedOut")
            /\ (FetchError(r) \/ BodyError(r))
                  => (reqs'[r].pc = "done" /\ reqs'[r].outcome = "Failed")
            /\ \A b \in Bodies :
                  (BodyArrives(r, b) /\ (~reqs[r].ok \/ ~b.parses))
                      => (reqs'[r].pc = "done" /\ reqs'[r].outcome = "Failed")
            /\ (/\ reqs[r].pc # "done"
                /\ reqs'[r].pc = "done"
                /\ reqs'[r].outcome \in {"Cancelled", "TimedOut", "Failed"})
                  => AppendsErrorEntry
       /\ (isRequestInProgress /\ ~isRequestInProgress')
            => \E r \in ReqIds :
                  /\ reqs[r].pc # "done"
                  /\ reqs'[r].pc = "done"
                  /\ reqs'[r].outcome = "Completed" \/ AppendsErrorEntry]_vars

\* C15 witness: a response whose body was not JSON ended the request as
\* Failed; the controller is idle and the transcript ends with
\* the error entry.
C15_Witness ==
    /\ reqs[1].pc = "done"
    /\ reqs[1].outcome = "Failed"
    /\ reqs[1].rendered = <<CommErrorEntry(SyntaxErrorMessage)>>
    /\ ~isRequestInProgress
    /\ Len(chat) = 2
    /\ chat[2] = CommErrorEntry(SyntaxErrorMessage)

\* C16: the transcript is append-only: every step leaves the entries it
\* finds in place and as they are, and at most appends to them; the entry of
\* a user message keeps the trimmed question of its Send intent; and a click
\* on the edit icon of an entry writes that question into the question
\* field and changes nothing else of the page or of the requests.
C16_AppendOnly ==
    /\ [][/\ Len(chat') >= Len(chat)
          /\ SubSeq(chat', 1, Len(chat)) = chat]_vars
    /\ [][SendAccepted =>
            /\ chat'[Len(chat')].role = "user"
            /\ chat'[Len(chat')].question = Trim(questionField)]_vars
    /\ [][\A k \in 1..2 * MaxReq :
            EditIconClick(k) =>
                /\ chat[k].role = "user"
                /\ questionField' = chat[k].question
                /\ UNCHANGED <<isRequestInProgress, currentAbortController,
                               isManualAbort, specificDataConfig, agentSelectValue,
                               agentSelectDescription, specificField, pond, chat,
                               spinner, spinnerFading, sendButton, sendContainer,
                               stopContainer, swal, reqs, nReq>>]_vars

\* C16 witness: the answer of the first request has been appended after its
\* user message, and a click on the edit icon of that message has written
\* its question, as it was sent, into the question field.
C16_Witness ==
    /\ Len(chat) = 2
    /\ chat[1].role = "user"
    /\ chat[1].pencil
    /\ chat[1].question = <<"Hello">>
    /\ chat[2].role = "bot"
    /\ questionField = <<"Hello">>

\* the request state: the two globals of lines 3-4 and the position of every
\* handler
RequestState ==
    <<isRequestInProgress, currentAbortController, [r \in ReqIds |-> reqs[r].pc]>>

\* what the user does on the page that is neither a Send intent that is
\* accepted nor a Cancel intent
PageStep ==
    \/ \E v \in QuestionInputs : EditQuestion(v)
    \/ \E item \in PromptItems : SelectPrompt(item)
    \/ \E v \in SpecificInputs : EditSpecific(v)
    \/ AddFile
    \/ \E k \in 1..2 * MaxReq : EditIconClick(k)
    \/ SendRejected
    \/ DismissWarning

\* what the UI functions setButtonToStop and setButtonToSend assign
UIFunctionWrites == DOMAIN setButtonToStop \cup DOMAIN setButtonToSend

\* C17 (as claimed): the presentation follows the request state and no UI
\* function changes the request state. The UI functions setButtonToStop and
\* setButtonToSend assign nothing of the request state (the in-progress flag,
\* the token reference). While isRequestInProgress is true the spinner is
\* shown and the button is in stop mode; while it is false the spinner is
\* hidden, the button is in send mode and its container is visible. A step
\* that leaves the request state as it is leaves the spinner, the button and
\* the two containers as they are; and the steps of the page other than an
\* accepted Send intent and a Cancel intent change neither the request state
\* nor the presentation.
C17_Projection ==
    /\ UIFunctionWrites \cap {"inProgress", "controller"} = {}
    /\ [](isRequestInProgress => (spinner /\ sendButton = "stop"))
    /\ [](~isRequestInProgress => (~spinner /\ sendButton = "send" /\ sendContainer))
    /\ [][RequestState' = RequestState => UNCHANGED ui]_vars
    /\ [][PageStep => (RequestState' = RequestState /\ UNCHANGED ui)]_vars

\* C18 (as claimed): for every request that has ended, the reference to its
\* token was released (set to null) exactly once and clearTimeout was called
\* for its timer exactly once; and whenever no request is in progress
\* currentAbortController is null and the timer of no request that has ended
\* is armed.
C18_ReleasedExactlyOnce ==
    /\ \A r \in ReqIds :
          reqs[r].pc = "done" => (reqs[r].resets = 1 /\ reqs[r].clears = 1)
    /\ ~isRequestInProgress =>
          /\ currentAbortController = Null
          /\ \A r \in ReqIds : reqs[r].pc = "done" => reqs[r].timer # "armed"

\* C19 (as claimed): the deadline covers the request until it completes: as
\* long as the network call of a request is outstanding, that is from the
\* call of fetch until the body has been decoded or the request has been
\* cancelled, also after the status line has arrived, its deadline timer is
\* armed (so that a response that never completes is ended by the timer).
C19_DeadlineCoversRequest ==
    \A r \in ReqIds : Outstanding(r) => reqs[r].timer = "armed"

\* C20: a Cancel intent that passes the guard of line 314 ends the request
\* that owns the token in the same step, whether it was waiting for the
\* response or for its body, and the cancellation notice is the one entry
\* appended; a request that has ended receives no response and no body and
\* its record of rendered entries never changes again; every entry appended
\* to the transcript is either the user message of an accepted Send intent or
\* what the request that ends in that step rendered; hence a cancelled
\* request has rendered the cancellation notice and nothing else.
C20_NothingAfterCancel ==
    /\ [][(AbortGuard /\ CancelIntentStep) =>
            /\ reqs'[currentAbortController].pc = "done"
            /\ reqs'[currentAbortController].outcome = "Cancelled"
            /\ reqs'[currentAbortController].rendered = <<CancelNotice>>
            /\ chat' = Append(chat, CancelNotice)]_vars
    /\ [][\A r \in ReqIds :
            reqs[r].pc = "done" =>
                /\ reqs'[r] = reqs[r]
                /\ ~FetchError(r)
                /\ ~BodyError(r)
                /\ \A ok \in BOOLEAN : ~FetchResponse(r, ok)
                /\ \A b \in Bodies : ~BodyArrives(r, b)]_vars
    /\ [][chat' # chat =>
            \/ \E r \in ReqIds :
                  /\ reqs[r].pc # "done"
                  /\ reqs'[r].pc = "done"
                  /\ chat' = chat \o reqs'[r].rendered
            \/ SendAccepted]_vars
    /\ [](\A r \in ReqIds :
            reqs[r].outcome = "Cancelled" => reqs[r].rendered = <<CancelNotice>>)

\* C20 witness: the first request was cancelled while its body was being
\* read, after the headers of the response had arrived (clearTimeout had run
\* at line 215 and ran again at line 228); it rendered the cancellation
\* notice only.
C20_Witness ==
    /\ reqs[1].pc = "done"
    /\ reqs[1].outcome = "Cancelled"
    /\ reqs[1].clears = 2
    /\ reqs[1].rendered = <<CancelNotice>>
    /\ Len(chat) = 2

\* a request record without the note that a Cancel intent was issued
Unnoted(rec) == [rec EXCEPT !.cancelIntent = "none"]

\* C21: a Cancel intent (a click on the stop button, or a Send intent while
\* a request is in progress) that arrives when no network call is
\* outstanding, that is while idle or while the request is still waiting for
\* its encodings, is a no-op: the manual-cancel flag, the token reference,
\* the in-progress flag, the spinner, the button and its containers, the
\* transcript, the form, the queue and the position and constants of every
\* handler are unchanged. And the request goes on: when the last encoding of
\* a request ends during which such an intent arrived, the request issues
\* its network call, with its timer armed and its token in place.
C21_CancelOutsideFlightIsNoOp ==
    /\ [][(CancelIntentStep /\ \A r \in ReqIds : ~Outstanding(r)) =>
            /\ UNCHANGED <<isRequestInProgress, currentAbortController,
                           isManualAbort, spinner, spinnerFading, sendButton,
                           sendContainer, stopContainer, chat, questionField,
                           agentSelectValue,
                           agentSelectDescription, specificField, pond, nReq>>
            /\ \A r \in ReqIds : Unnoted(reqs'[r]) = Unnoted(reqs[r])]_vars
    /\ [][\A r \in ReqIds, i \in 1..MaxFiles :
            (/\ reqs[r].pc = "encoding"
             /\ reqs[r].cancelIntent # "none"
             /\ Len(reqs[r].settled) + 1 = Len(reqs[r].files)
             /\ EncodeDone(r, i))
                => /\ reqs'[r].pc = "fetch"
                   /\ reqs'[r].calls = 1
                   /\ reqs'[r].timer = "armed"
                   /\ reqs'[r].data.sent
                   /\ currentAbortController' = r
                   /\ ~isManualAbort']_vars

\* C21 witness: a Send intent arrived while the first request was encoding
\* its file; the encoding has ended since and the call of the request is
\* outstanding, with the spinner shown and no manual-cancel flag.
C21_Witness ==
    /\ reqs[1].pc = "fetch"
    /\ reqs[1].files # <<>>
    /\ reqs[1].cancelIntent = "send"
    /\ reqs[1].calls = 1
    /\ ~reqs[1].aborted
    /\ spinner
    /\ ~isManualAbort

\* the entries of the transcript with the given role
EntriesOf(role) == {k \in 1..Len(chat) : chat[k].role = role}

\* C22: an accepted Send intent appends exactly one entry, a user entry, in
\* the step in which it is accepted, and it is accepted only when every
\* earlier request has ended (so what an earlier request rendered stands
\* before it). A request appends nothing else until it ends, and the step in
\* which it ends appends what it rendered: at most one entry, a bot entry,
\* right behind its own user entry. Hence the transcript holds one user
\* entry per accepted submission, never two bot entries in a row, never a
\* bot entry first, and at most one bot entry per request that has ended.
C22_TranscriptOrder ==
    /\ [][SendAccepted =>
            /\ Len(chat') = Len(chat) + 1
            /\ SubSeq(chat', 1, Len(chat)) = chat
            /\ chat'[Len(chat')].role = "user"
            /\ \A r \in 1..nReq : reqs[r].pc = "done"]_vars
    /\ [][\A r \in ReqIds :
            (reqs[r].pc # "done" /\ reqs'[r].pc = "done") =>
                /\ chat' = chat \o reqs'[r].rendered
                /\ Len(reqs'[r].rendered) <= 1
                /\ \A k \in 1..Len(reqs'[r].rendered) :
                      reqs'[r].rendered[k].role = "bot"
                /\ chat # <<>>
                /\ chat[Len(chat)].role = "user"
                /\ r = nReq]_vars
    /\ [][chat' # chat =>
            \/ SendAccepted
            \/ \E r \in ReqIds : reqs[r].pc # "done" /\ reqs'[r].pc = "done"]_vars
    /\ [](/\ Cardinality(EntriesOf("user")) = nReq
          /\ Cardinality(EntriesOf("bot"))
                <= Cardinality({r \in ReqIds : reqs[r].pc = "done"})
          /\ \A k \in EntriesOf("bot") : k > 1 /\ chat[k - 1].role = "user")

\* C22 witness: two requests have ended, the first with an answer and the
\* second with a server error; the transcript is user, bot, user, bot.
C22_Witness ==
    /\ Len(chat) = 4
    /\ chat[1].role = "user"
    /\ chat[2] = BotEntry("answer-section llm-output", <<"42">>)
    /\ chat[3].role = "user"
    /\ chat[4] = BotEntry("error-section", <<"db down">>)
    /\ reqs[1].rendered = <<chat[2]>>
    /\ reqs[2].rendered = <<chat[4]>>

\* C23: the deadline timer belongs to the request that armed it. When the
\* timer of a request fires, no other request changes; an armed timer is
\* always the timer of the request whose call is awaiting its response and
\* which owns the current token, so no timer is left over from a request
\* that has ended; and a request ends as TimedOut, or renders the timeout
\* wording, only if its own timer has fired.
C23_TimerScopedToRequest ==
    /\ [][\A r \in ReqIds :
            TimerFires(r) =>
                /\ reqs'[r].timer = "fired"
                /\ \A q \in ReqIds \ {r} : reqs'[q] = reqs[q]]_vars
    /\ [](\A r \in ReqIds :
            reqs[r].timer = "armed" =>
                /\ reqs[r].pc = "fetch"
                /\ currentAbortController = r
                /\ \A q \in ReqIds \ {r} : reqs[q].timer # "armed")
    /\ [](\A r \in ReqIds :
            (\/ reqs[r].outcome = "TimedOut"
             \/ \E k \in 1..Len(reqs[r].rendered) :
                   reqs[r].rendered[k].text = TimeoutText)
                => reqs[r].timer = "fired")

\* C23 witness: the timer of the first request fired and ended it as
\* TimedOut; the user sent again and the call of the second request is
\* outstanding, not aborted, with its own timer armed.
C23_Witness ==
    /\ reqs[1].outcome = "TimedOut"
    /\ reqs[1].timer = "fired"
    /\ reqs[2].pc = "fetch"
    /\ reqs[2].timer = "armed"
    /\ ~reqs[2].aborted
    /\ currentAbortController = 2

\* C24 (as claimed): the cleanup at the end of a request removes from the
\* attachment queue the attachments of the snapshot of that request and no
\* other: the attachments queued after the snapshot was taken are still in
\* the queue, in their order, when the request has ended; and an accepted
\* Send intent takes the whole queue as its snapshot.
C24_CleanupKeepsLaterFiles ==
    [][/\ \A r \in ReqIds :
            (reqs[r].pc # "done" /\ reqs'[r].pc = "done") =>
                LET Later(f) == \A k \in 1..Len(reqs[r].files) : reqs[r].files[k] # f
                IN  pond' = SelectSeq(pond, Later)
       /\ SendAccepted => reqs'[nReq'].files = pond]_vars

====
